---- MODULE Spec2Model ----
(***************************************************************************)
(* Model of src/model/patient.py: the patient menu's booking, cancelling   *)
(* and viewing of appointments over three CSV files (assignments, MHWP     *)
(* schedule, appointments ledger).                                         *)
(*                                                                         *)
(* A CSV file is a record [exists, lines]; a line is a sequence of cell    *)
(* strings and the first line of a file is its header.  A row read by      *)
(* csv.DictReader is an ordered dict, modelled as [keys, vals].            *)
(***************************************************************************)
EXTENDS Integers, Sequences, FiniteSets, TLC

\* ---------------------------------------------------------------- bounds
\* Longest appointments file (in lines, header included) the model explores.
MaxLedgerLines == 4
\* Longest comma-separated selection the patient types.
MaxSelLen == 3

\* ------------------------------------------------------------- constants
\* The two occupancy markers of a schedule cell (the source's white and
\* black square characters).
OPEN == "OPEN"
BOOKED == "BOOKED"

\* patient_select_slots accepts at most this many indices.
MaxSlotsPerBooking == 2
\* extract_available_slots takes the row's keys from this 0-based offset on.
SlotColumnOffset == 3

None == "None"

Patients == {"alice", "bob"}
MHWPs == {"drsmith", "drjones"}
Dates == {"2024/03/01", "2024/03/02"}
\* The time-slot columns of the schedule file, in column order.
SlotNames == <<"09:00", "10:00", "11:00", "12:00">>
SlotNameSet == {SlotNames[i] : i \in 1..Len(SlotNames)}

\* Schedule file header: mhwp_username, Date, then the time-slot columns.
ScheduleFields == <<"mhwp_username", "Date">> \o SlotNames
AssignmentFields == <<"patient_username", "mhwp_username">>
\* Field names the cancel operation rewrites the ledger with, and the names
\* every reader of the ledger looks up.
AppointmentFields == <<"patient_username", "mhwp_username", "Date", "time_slot">>
\* Field names patient_select_slots gives its DictWriter.
LogFields == <<"patient_username", "mhwp_username", "Date", "Slot">>

\* What the patient can type as one comma-separated token of a selection.
\* "x" stands for any token str.isdigit() rejects (a word, an empty token,
\* a signed number such as -1).
DigitTokens == <<"0", "1">>
Tokens == {DigitTokens[i] : i \in 1..Len(DigitTokens)} \cup {"x"}

\* ------------------------------------------------------------ csv helpers
Range(s) == {s[i] : i \in 1..Len(s)}

SeqsUpTo(S, n) == UNION {[1..k -> S] : k \in 0..n}

NoFile == [exists |-> FALSE, lines |-> <<>>]
File(ls) == [exists |-> TRUE, lines |-> ls]

\* csv.DictReader: the first line names the fields, every further line is a
\* dict from those names to its cells.
DictReader(lines) ==
    IF lines = <<>> THEN <<>>
    ELSE [i \in 1..(Len(lines) - 1) |-> [keys |-> lines[1], vals |-> lines[i + 1]]]

HasKey(d, k) == \E i \in 1..Len(d.keys) : i <= Len(d.vals) /\ d.keys[i] = k

\* d[k] of a dict that has the key.
DictGet(d, k) ==
    d.vals[CHOOSE i \in 1..Len(d.keys) : i <= Len(d.vals) /\ d.keys[i] = k]

\* d[k] = v of a dict that has the key.
DictSet(d, k, v) ==
    [d EXCEPT !.vals = [i \in 1..Len(d.vals) |-> IF d.keys[i] = k THEN v ELSE d.vals[i]]]

\* csv.DictWriter(fieldnames).writerow(d): the cells in fieldnames order.
WriteRow(fieldnames, d) == [i \in 1..Len(fieldnames) |-> DictGet(d, fieldnames[i])]

\* A dict literal with the given keys and values.
Dict(ks, vs) == [keys |-> ks, vals |-> vs]

\* --------------------------------------------------------- pure functions
\* The lookup returning the last matching row instead of the first.
get_assigned_mhwp_LastMatch(patient_username, assignments_file) ==
    IF ~assignments_file.exists THEN None
    ELSE LET rows == DictReader(assignments_file.lines)
             Match(i) == /\ DictGet(rows[i], "patient_username") = patient_username
                         /\ \A j \in (i + 1)..Len(rows) :
                                DictGet(rows[j], "patient_username") # patient_username
         IN IF \E i \in 1..Len(rows) : Match(i)
            THEN DictGet(rows[CHOOSE i \in 1..Len(rows) : Match(i)], "mhwp_username")
            ELSE None

\* get_assigned_mhwp: the mhwp_username of the first row, in file order,
\* whose patient_username is the patient; None when the file is missing,
\* no row matches, or reading raises (the except clause swallows it).
get_assigned_mhwp(patient_username, assignments_file) ==
    IF ~assignments_file.exists THEN None
    ELSE LET rows == DictReader(assignments_file.lines)
             Match(i) == /\ \A j \in 1..i : HasKey(rows[j], "patient_username")
                         /\ DictGet(rows[i], "patient_username") = patient_username
                         /\ \A j \in 1..(i - 1) :
                                DictGet(rows[j], "patient_username") # patient_username
         IN IF \E i \in 1..Len(rows) : Match(i) /\ HasKey(rows[i], "mhwp_username")
            THEN DictGet(rows[CHOOSE i \in 1..Len(rows) : Match(i)], "mhwp_username")
            ELSE None

\* The listing without the test of the cell's marker.
extract_available_slots_NoFilter(date_schedule) ==
    IF date_schedule = <<>> THEN <<>>
    ELSE LET row == date_schedule[1]
             slot_columns == SubSeq(row.keys, SlotColumnOffset + 1, Len(row.keys))
         IN [i \in 1..Len(slot_columns) |-> <<i - 1, slot_columns[i]>>]

\* extract_available_slots: the (index, column name) pairs of the columns
\* of date_schedule[0], from offset SlotColumnOffset on, whose cell is the
\* OPEN marker; index counts from 0 among those columns.  (Cells hold one
\* of the two markers, so the source's strip() leaves them as they are.)
extract_available_slots(date_schedule) ==
    IF date_schedule = <<>> THEN <<>>
    ELSE LET row == date_schedule[1]
             slot_columns == SubSeq(row.keys, SlotColumnOffset + 1, Len(row.keys))
             enumerated == [i \in 1..Len(slot_columns) |-> <<i - 1, slot_columns[i]>>]
             IsOpen(pair) == DictGet(row, pair[2]) = OPEN
         IN SelectSeq(enumerated, IsOpen)

\* str.isdigit() and int() on one token of the typed selection.
IsDigit(tok) == \E i \in 1..Len(DigitTokens) : DigitTokens[i] = tok
IntOf(tok) == (CHOOSE i \in 1..Len(DigitTokens) : DigitTokens[i] = tok) - 1

\* [int(idx.strip()) for idx in selected_indices if idx.strip().isdigit()]
ParseIndices(tokens) ==
    LET digits == SelectSeq(tokens, IsDigit)
    IN [i \in 1..Len(digits) |-> IntOf(digits[i])]

\* The indices extract_available_slots reported: [slot[0] for slot in available_slots].
OpenIndices(avail) == {avail[i][1] : i \in 1..Len(avail)}

\* The acceptance test without its limit on the number of indices.
ValidSelection_NoLimit(indices, avail) ==
    \A i \in 1..Len(indices) : indices[i] \in OpenIndices(avail)

\* The acceptance test of the selection loop.
ValidSelection(indices, avail) ==
    /\ \A i \in 1..Len(indices) : indices[i] \in OpenIndices(avail)
    /\ Len(indices) <= MaxSlotsPerBooking

\* available_slots[idx] raises IndexError when idx is not a position of the list.
RaisesIndexError(indices, avail) ==
    \E i \in 1..Len(indices) : indices[i] >= Len(avail)

\* slot_key = available_slots[idx][1], for each selected idx in order.
ChosenSlotKeys(indices, avail) ==
    [i \in 1..Len(indices) |-> avail[indices[i] + 1][2]]

\* The marking loop with its assignments lost: the row stays as it was read.
MarkBooked_LeavesOpen(row, slot_keys) == row

\* The loop "date_schedule[0][slot_key] = BOOKED" over the chosen slot keys.
RECURSIVE MarkBooked(_, _)
MarkBooked(row, slot_keys) ==
    IF slot_keys = <<>> THEN row
    ELSE MarkBooked(DictSet(row, Head(slot_keys), BOOKED), Tail(slot_keys))

\* Position in rows of date_schedule[0]: the first row of the selected date
\* (0 when date_schedule is empty).
DateScheduleIndex(rows, date) ==
    IF \E i \in 1..Len(rows) : DictGet(rows[i], "Date") = date
    THEN CHOOSE i \in 1..Len(rows) :
            /\ DictGet(rows[i], "Date") = date
            /\ \A j \in 1..(i - 1) : DictGet(rows[j], "Date") # date
    ELSE 0

\* The whole schedule file as patient_select_slots rewrites it: a header of
\* date_schedule[0]'s keys, then the rows of all_schedules.
SavedSchedule(rows, fieldnames) ==
    File(<<fieldnames>> \o [i \in 1..Len(rows) |-> WriteRow(fieldnames, rows[i])])

\* The lines patient_select_slots appends to the appointments file: one per
\* selected index, written through a DictWriter that writes no header.
LoggedLines(patient_username, mhwp, date, slot_keys) ==
    [i \in 1..Len(slot_keys) |->
        WriteRow(LogFields, Dict(LogFields, <<patient_username, mhwp, date, slot_keys[i]>>))]

\* The cancel filter's condition on one ledger row; evaluating it raises
\* KeyError when a field it reaches is not among the row's keys.
CancelMatches(appt, username, date, time_slot) ==
    /\ DictGet(appt, "patient_username") = username
    /\ DictGet(appt, "Date") = date
    /\ DictGet(appt, "time_slot") = time_slot

CancelRaisesKeyError(appt, username, date, time_slot) ==
    \/ ~HasKey(appt, "patient_username")
    \/ /\ DictGet(appt, "patient_username") = username
       /\ \/ ~HasKey(appt, "Date")
          \/ /\ DictGet(appt, "Date") = date
             /\ ~HasKey(appt, "time_slot")

\* The view filter reads row["patient_username"] of every ledger row, which
\* raises KeyError when the file's first line does not name that field.
ViewRaisesKeyError(appointments_file) ==
    LET rows == DictReader(appointments_file.lines)
    IN \E i \in 1..Len(rows) : ~HasKey(rows[i], "patient_username")

\* The rows "view booked appointments" lists for a patient.
ListForPatient(appointments_file, username) ==
    LET rows == DictReader(appointments_file.lines)
        IsMine(row) == DictGet(row, "patient_username") = username
    IN SelectSeq(rows, IsMine)

\* load_mhwp_schedule: the schedule rows whose (Date, time_slot) is not among
\* those of the MHWP's ledger rows; both comprehensions read their fields by
\* name, outside any try, so a missing field raises KeyError.  The result is
\* [raised, rows].
load_mhwp_schedule(mhwp, schedule_file, appointments_file) ==
    LET appts == DictReader(appointments_file.lines)
        Booked(i) == /\ DictGet(appts[i], "mhwp_username") = mhwp
        booked_raises ==
            /\ appointments_file.exists
            /\ \E i \in 1..Len(appts) :
                  \/ ~HasKey(appts[i], "mhwp_username")
                  \/ /\ Booked(i)
                     /\ ~(HasKey(appts[i], "Date") /\ HasKey(appts[i], "time_slot"))
        booked_slots ==
            IF appointments_file.exists
            THEN {<<DictGet(appts[i], "Date"), DictGet(appts[i], "time_slot")>> :
                     i \in {j \in 1..Len(appts) : Booked(j)}}
            ELSE {}
        rows == DictReader(schedule_file.lines)
        rows_raise ==
            \E i \in 1..Len(rows) :
                ~(HasKey(rows[i], "Date") /\ HasKey(rows[i], "time_slot"))
        NotBooked(row) ==
            <<DictGet(row, "Date"), DictGet(row, "time_slot")>> \notin booked_slots
    IN IF ~schedule_file.exists THEN [raised |-> FALSE, rows |-> <<>>]
       ELSE IF booked_raises \/ rows_raise THEN [raised |-> TRUE, rows |-> <<>>]
       ELSE [raised |-> FALSE, rows |-> SelectSeq(rows, NotBooked)]

\* ------------------------------------------------------------------ state
VARIABLES
    assignments,       \* data/assignments.csv
    schedule,          \* data/mhwp_schedule.csv
    appointments,      \* data/appointments.csv
    user,              \* user.username of the session
    pc,                \* where the session is: "menu", "select" (the selection
                       \* prompt), "mark" (selection accepted), "append"
                       \* (schedule saved, ledger not yet written), "ended"
                       \* (logged out), "raised" (an exception left
                       \* handle_patient_menu)
    msg,               \* the last message printed
    listed,            \* the table "view booked appointments" printed last
    mhwp_username,     \* locals of patient_select_slots while it runs
    all_schedules,
    selected_date,
    available_slots,
    selected_indices

files == <<assignments, schedule, appointments>>
locals == <<mhwp_username, all_schedules, selected_date, available_slots, selected_indices>>
vars == <<assignments, schedule, appointments, user, pc, msg, listed,
          mhwp_username, all_schedules, selected_date, available_slots,
          selected_indices>>

\* Assignments files the model starts from: missing, one MHWP per patient,
\* two patients of one MHWP, and a patient listed twice.
InitAssignments ==
    { NoFile,
      File(<<AssignmentFields, <<"alice", "drsmith">>, <<"bob", "drjones">> >>),
      File(<<AssignmentFields, <<"alice", "drsmith">>, <<"bob", "drsmith">>,
             <<"alice", "drjones">> >>) }

\* Cells of the first schedule row the model starts from: all open, or the
\* second slot column already taken.
InitCells ==
    { <<OPEN, OPEN, OPEN, OPEN>>,
      <<OPEN, BOOKED, OPEN, OPEN>> }

\* Schedule files the model starts from: missing, or one row per
\* (mhwp_username, Date) for three of the four pairs.
InitSchedules ==
    { NoFile } \cup
    { File(<<ScheduleFields,
             <<"drsmith", "2024/03/01">> \o c,
             <<"drjones", "2024/03/01">> \o <<OPEN, OPEN, OPEN, BOOKED>>,
             <<"drsmith", "2024/03/02">> \o <<BOOKED, BOOKED, BOOKED, BOOKED>> >>)
      : c \in InitCells }

\* Appointments files the model starts from: missing, header only, or (when
\* the schedule file is there) one earlier booking whose cell the schedule
\* rows above hold BOOKED.
InitAppointments(schedule_file) ==
    { NoFile, File(<<AppointmentFields>>) } \cup
    IF schedule_file.exists
    THEN { File(<<AppointmentFields, <<"alice", "drsmith", "2024/03/02", "10:00">> >>) }
    ELSE {}

Init ==
    /\ assignments \in InitAssignments
    /\ schedule \in InitSchedules
    /\ appointments \in InitAppointments(schedule)
    /\ user \in Patients
    /\ pc = "menu"
    /\ msg = ""
    /\ listed = <<>>
    /\ mhwp_username = None
    /\ all_schedules = <<>>
    /\ selected_date = None
    /\ available_slots = <<>>
    /\ selected_indices = <<>>

\* patient_select_slots returns: its locals are gone.
ClearLocals ==
    /\ mhwp_username' = None
    /\ all_schedules' = <<>>
    /\ selected_date' = None
    /\ available_slots' = <<>>
    /\ selected_indices' = <<>>

\* An operation prints text and the menu loop goes round again.
BackToMenu(text) ==
    /\ pc' = "menu"
    /\ msg' = text
    /\ listed' = <<>>

\* ---------------------------------------------------------------- actions
\* Menu 6/1 up to the selection prompt: look up the MHWP, load its rows,
\* ask for the date, list the open slots.
BookAppointment(date) ==
    /\ pc = "menu"
    /\ UNCHANGED <<files, user>>
    /\ LET m == get_assigned_mhwp(user, assignments)
           rows == LET all == DictReader(schedule.lines)
                       IsMine(row) == DictGet(row, "mhwp_username") = m
                   IN SelectSeq(all, IsMine)
           at == DateScheduleIndex(rows, date)
           date_schedule == IF at = 0 THEN <<>> ELSE <<rows[at]>>
           avail == extract_available_slots(date_schedule)
       IN IF m = None
          THEN BackToMenu("No MHW assigned to you. Please contact support.") /\ ClearLocals
          ELSE IF ~schedule.exists
          THEN BackToMenu("Error: Schedule file not found.") /\ ClearLocals
          ELSE IF rows = <<>>
          THEN BackToMenu("No schedule found for MHW.") /\ ClearLocals
          ELSE IF date_schedule = <<>>
          THEN BackToMenu("No schedule found for date. Please select a valid date.")
               /\ ClearLocals
          ELSE IF avail = <<>>
          THEN BackToMenu("No available slots for the selected date. Please try another date.")
               /\ ClearLocals
          ELSE /\ pc' = "select"
               /\ msg' = "Available Slots"
               /\ listed' = <<>>
               /\ mhwp_username' = m
               /\ all_schedules' = rows
               /\ selected_date' = date
               /\ available_slots' = avail
               /\ selected_indices' = <<>>

\* One round of the selection loop: parse what was typed, then either leave
\* the loop with the selection or print the invalid-input message and ask
\* again.
SelectSlots(tokens) ==
    /\ pc = "select"
    /\ selected_indices' = ParseIndices(tokens)
    /\ IF ValidSelection(selected_indices', available_slots)
       THEN /\ Len(appointments.lines) + Len(selected_indices') <= MaxLedgerLines
            /\ pc' = "mark"
            /\ UNCHANGED msg
       ELSE /\ pc' = "select"
            /\ msg' = "Invalid input. Please enter valid indices."
    /\ UNCHANGED <<files, user, listed, mhwp_username, all_schedules, selected_date,
                   available_slots>>

\* The step after the loop without the rewrite of the schedule file.
SaveSchedule_NoSave ==
    /\ pc = "mark"
    /\ UNCHANGED <<assignments, appointments, user, schedule>>
    /\ LET at == DateScheduleIndex(all_schedules, selected_date)
       IN IF RaisesIndexError(selected_indices, available_slots)
          THEN /\ BackToMenu("Error: list index out of range")
               /\ ClearLocals
          ELSE /\ pc' = "append"
               /\ all_schedules' =
                    [all_schedules EXCEPT ![at] =
                        MarkBooked(@, ChosenSlotKeys(selected_indices, available_slots))]
               /\ UNCHANGED <<msg, listed, mhwp_username, selected_date,
                              available_slots, selected_indices>>

\* After the loop: mark the chosen cells of date_schedule[0] and rewrite the
\* schedule file with the rows of all_schedules; an IndexError on the way is
\* caught by the function's except clause and printed.
SaveSchedule ==
    /\ pc = "mark"
    /\ UNCHANGED <<assignments, appointments, user>>
    /\ LET at == DateScheduleIndex(all_schedules, selected_date)
       IN IF RaisesIndexError(selected_indices, available_slots)
          THEN /\ BackToMenu("Error: list index out of range")
               /\ ClearLocals
               /\ UNCHANGED schedule
          ELSE /\ pc' = "append"
               /\ all_schedules' =
                    [all_schedules EXCEPT ![at] =
                        MarkBooked(@, ChosenSlotKeys(selected_indices, available_slots))]
               /\ schedule' = SavedSchedule(all_schedules', all_schedules'[at].keys)
               /\ UNCHANGED <<msg, listed, mhwp_username, selected_date,
                              available_slots, selected_indices>>

\* The rest of an accepted booking: append one line per selected index to
\* the appointments file (created if missing) and report success.
LogAppointments ==
    /\ pc = "append"
    /\ appointments' =
         File(appointments.lines
              \o LoggedLines(user, mhwp_username, selected_date,
                             ChosenSlotKeys(selected_indices, available_slots)))
    /\ BackToMenu("Appointment(s) booked successfully.")
    /\ ClearLocals
    /\ UNCHANGED <<assignments, schedule, user>>

\* The schedule file with the slot's cell set back to OPEN in the rows of the date.
ReopenedSchedule(schedule_file, date, time_slot) ==
    IF ~schedule_file.exists THEN schedule_file
    ELSE LET rows == DictReader(schedule_file.lines)
             Reopen(row) == IF DictGet(row, "Date") = date /\ HasKey(row, time_slot)
                            THEN DictSet(row, time_slot, OPEN)
                            ELSE row
         IN File(<<schedule_file.lines[1]>>
                 \o [i \in 1..Len(rows) |-> Reopen(rows[i]).vals])

\* A cancel that also frees the cancelled slot in the schedule file.
CancelAppointment_FreesSlot(date, time_slot) ==
    /\ pc = "menu"
    /\ UNCHANGED <<assignments, user, locals>>
    /\ IF ~appointments.exists
       THEN BackToMenu("No appointments found.") /\ UNCHANGED <<appointments, schedule>>
       ELSE LET appts == DictReader(appointments.lines)
                Keep(appt) == ~CancelMatches(appt, user, date, time_slot)
                updated_appointments == SelectSeq(appts, Keep)
            IN IF \E i \in 1..Len(appts) :
                     CancelRaisesKeyError(appts[i], user, date, time_slot)
               THEN /\ pc' = "raised"
                    /\ msg' = "KeyError"
                    /\ listed' = <<>>
                    /\ UNCHANGED <<appointments, schedule>>
               ELSE IF Len(updated_appointments) < Len(appts)
               THEN /\ appointments' =
                         File(<<AppointmentFields>>
                              \o [i \in 1..Len(updated_appointments) |->
                                    WriteRow(AppointmentFields, updated_appointments[i])])
                    /\ schedule' = ReopenedSchedule(schedule, date, time_slot)
                    /\ BackToMenu("Appointment cancelled successfully!")
               ELSE BackToMenu("No matching appointment found.")
                    /\ UNCHANGED <<appointments, schedule>>

\* Menu 6/2: drop the ledger rows of this user with the typed date and slot.
CancelAppointment(date, time_slot) ==
    /\ pc = "menu"
    /\ UNCHANGED <<assignments, schedule, user, locals>>
    /\ IF ~appointments.exists
       THEN BackToMenu("No appointments found.") /\ UNCHANGED appointments
       ELSE LET appts == DictReader(appointments.lines)
                Keep(appt) == ~CancelMatches(appt, user, date, time_slot)
                updated_appointments == SelectSeq(appts, Keep)
            IN IF \E i \in 1..Len(appts) :
                     CancelRaisesKeyError(appts[i], user, date, time_slot)
               THEN /\ pc' = "raised"
                    /\ msg' = "KeyError"
                    /\ listed' = <<>>
                    /\ UNCHANGED appointments
               ELSE IF Len(updated_appointments) < Len(appts)
               THEN /\ appointments' =
                         File(<<AppointmentFields>>
                              \o [i \in 1..Len(updated_appointments) |->
                                    WriteRow(AppointmentFields, updated_appointments[i])])
                    /\ BackToMenu("Appointment cancelled successfully!")
               ELSE BackToMenu("No matching appointment found.")
                    /\ UNCHANGED appointments

\* Menu 6/3: print the ledger rows of this user.
ViewAppointments ==
    /\ pc = "menu"
    /\ UNCHANGED <<files, user, locals>>
    /\ IF ~appointments.exists
       THEN BackToMenu("No appointments found.")
       ELSE LET mine == ListForPatient(appointments, user)
            IN IF ViewRaisesKeyError(appointments)
               THEN /\ pc' = "raised"
                    /\ msg' = "KeyError"
                    /\ listed' = <<>>
               ELSE IF mine # <<>>
               THEN /\ pc' = "menu"
                    /\ msg' = "Your Appointments:"
                    /\ listed' = mine
               ELSE BackToMenu("No appointments found.")

\* Menu 9: the loop ends.
Logout ==
    /\ pc = "menu"
    /\ pc' = "ended"
    /\ msg' = "Logging out."
    /\ listed' = <<>>
    /\ UNCHANGED <<files, user, locals>>

\* handle_patient_menu is called for the next user who logs in.
Login(u) ==
    /\ pc = "ended"
    /\ pc' = "menu"
    /\ user' = u
    /\ msg' = ""
    /\ UNCHANGED <<files, listed, locals>>

\* Opening the appointments file for append fails (an OSError) after the
\* schedule was saved: the except clause prints the error and the function
\* returns; nothing is undone.
AppendFails ==
    /\ pc = "append"
    /\ BackToMenu("Error: cannot open appointments file")
    /\ ClearLocals
    /\ UNCHANGED <<files, user>>

\* A caller outside the patient menu loads an MHWP's available schedule; the
\* rows it gets, or the KeyError, are what it shows.
LoadMhwpSchedule(mhwp) ==
    /\ pc = "menu"
    /\ LET result == load_mhwp_schedule(mhwp, schedule, appointments)
       IN IF result.raised
          THEN msg' = "KeyError" /\ listed' = <<>>
          ELSE msg' = "Schedule loaded." /\ listed' = result.rows
    /\ UNCHANGED <<files, user, pc, locals>>

Next ==
    \/ \E date \in Dates : BookAppointment(date)
    \/ \E tokens \in SeqsUpTo(Tokens, MaxSelLen) : SelectSlots(tokens)
    \/ SaveSchedule
    \/ LogAppointments
    \/ \E date \in Dates, time_slot \in SlotNameSet : CancelAppointment(date, time_slot)
    \/ ViewAppointments
    \/ Logout
    \/ \E u \in Patients : Login(u)

Spec == Init /\ [][Next]_vars

\* The patient menu together with the callers of load_mhwp_schedule.
NextLoad ==
    \/ Next
    \/ \E mhwp \in MHWPs : LoadMhwpSchedule(mhwp)

SpecLoad == Init /\ [][NextLoad]_vars

\* The patient menu with a ledger append that can fail.
NextAbort ==
    \/ Next
    \/ AppendFails

SpecAbort == Init /\ [][NextAbort]_vars

TypeOK ==
    /\ pc \in {"menu", "select", "mark", "append", "ended", "raised"}
    /\ user \in Patients
    /\ Len(appointments.lines) <= MaxLedgerLines

\* ------------------------------------------------- vocabulary of the claims
\* The AppointmentRecords of the ledger, in file order: the rows a reader
\* gets that carry the four fields of a record, as (patient, mhwp, date, slot).
IsRecord(row) == \A i \in 1..Len(AppointmentFields) : HasKey(row, AppointmentFields[i])

LedgerRecords(appointments_file) ==
    LET rows == SelectSeq(DictReader(appointments_file.lines), IsRecord)
    IN [i \in 1..Len(rows) |-> WriteRow(AppointmentFields, rows[i])]

\* The persisted ScheduleRows of (mhwp, date).
ScheduleRowsOf(schedule_file, mhwp, date) ==
    LET IsIt(row) == /\ DictGet(row, "mhwp_username") = mhwp
                     /\ DictGet(row, "Date") = date
    IN SelectSeq(DictReader(schedule_file.lines), IsIt)

\* The time-slot columns of a schedule row laid out as mhwp_username, Date,
\* then the time-slot columns.
TimeSlotColumns(row) == SubSeq(row.keys, 3, Len(row.keys))

\* The step in which an accepted selection is marked and the schedule saved,
\* and the step in which the booking's records are appended.
ScheduleSaved == pc = "mark" /\ pc' = "append"
BookingLogged == pc = "append" /\ pc' = "menu"

\* The slots the booking in progress marked in the schedule.
BookedSlotKeys == Range(ChosenSlotKeys(selected_indices, available_slots))

\* C1: a successful booking marks exactly the slot columns whose reported
\* index was chosen: in the persisted row those cells are BOOKED, every other
\* cell of the row is as before, and listing the open slots of the persisted
\* row reports none of the chosen indices.
C1_BookingMarksChosenIndices ==
    [][(ScheduleSaved /\ Range(selected_indices') \subseteq OpenIndices(available_slots)) =>
        LET C == Range(selected_indices')
            before == ScheduleRowsOf(schedule, mhwp_username, selected_date)[1]
            after == ScheduleRowsOf(schedule', mhwp_username, selected_date)[1]
            chosen_keys == {available_slots[i][2] : i \in
                               {j \in 1..Len(available_slots) : available_slots[j][1] \in C}}
        IN /\ \A k \in chosen_keys : DictGet(after, k) = BOOKED
           /\ \A k \in Range(before.keys) \ chosen_keys :
                  DictGet(after, k) = DictGet(before, k)
           /\ OpenIndices(extract_available_slots(<<after>>)) \cap C = {}
    ]_vars

\* C2: a successful booking appends exactly one record (patient, mhwp, date,
\* slot) per slot it booked and changes nothing else in the ledger: the
\* records after are the records before followed by as many new records as
\* there are distinct booked slots, one for each.
C2_OneRecordPerBookedSlot ==
    [][BookingLogged =>
        LET before == LedgerRecords(appointments)
            after == LedgerRecords(appointments')
            added == SubSeq(after, Len(before) + 1, Len(after))
        IN /\ Len(after) >= Len(before)
           /\ SubSeq(after, 1, Len(before)) = before
           /\ Len(added) = Cardinality(BookedSlotKeys)
           /\ Range(added) = {<<user, mhwp_username, selected_date, s>> : s \in BookedSlotKeys}
    ]_vars

\* C3: between operations, every AppointmentRecord of the ledger has a
\* ScheduleRow (mhwp, date) in the schedule store whose cell for the record's
\* slot is BOOKED.
C3_RecordsHaveBookedCells ==
    pc \in {"menu", "ended"} =>
        \A r \in Range(LedgerRecords(appointments)) :
            \E row \in Range(ScheduleRowsOf(schedule, r[2], r[3])) :
                HasKey(row, r[4]) /\ DictGet(row, r[4]) = BOOKED

\* The selections the claims call valid: at most two indices, each one of
\* the indices reported open for the selected row.
ClaimedValid(indices, avail) ==
    /\ Len(indices) \in 0..2
    /\ \A i \in 1..Len(indices) : \E j \in 1..Len(avail) : avail[j][1] = indices[i]

\* C4: a booking whose selection is empty or has one or two indices, all
\* reported open for the selected row, is accepted, marks its cells and saves
\* the schedule (and then appends its records): it does not end in an error.
C4_ValidSelectionSucceeds ==
    [][/\ (pc = "select" /\ ClaimedValid(selected_indices', available_slots))
            => pc' = "mark"
       /\ pc = "mark" => (pc' = "append" /\ schedule'.exists)
    ]_vars

\* C5: a selection of more than two indices, or with an index that is not
\* reported open for the selected row, is rejected with the invalid-input
\* message, and the rejection changes neither the schedule file nor the
\* appointments file.
C5_InvalidSelectionRejected ==
    [][(pc = "select" /\ ~ClaimedValid(selected_indices', available_slots))
          => /\ pc' = "select"
             /\ msg' = "Invalid input. Please enter valid indices."
             /\ schedule' = schedule
             /\ appointments' = appointments
    ]_vars

\* A selection with an index that is not open was rejected, and one with
\* more than two indices was rejected.
C5_Witness ==
    /\ pc = "select"
    /\ msg = "Invalid input. Please enter valid indices."
    /\ \/ Len(selected_indices) > 2
       \/ \E i \in 1..Len(selected_indices) :
             selected_indices[i] \notin OpenIndices(available_slots)

\* C6: for a row laid out as mhwp_username, Date, then the time-slot columns,
\* the open slots listed at the selection prompt are exactly the pairs
\* (i, slot name) of the time-slot columns whose cell is OPEN, i being the
\* column's position among the time-slot columns, in column order.
C6_ListsExactlyOpenSlotColumns ==
    pc = "select" =>
        LET row == ScheduleRowsOf(schedule, mhwp_username, selected_date)[1]
            cols == TimeSlotColumns(row)
            enumerated == [i \in 1..Len(cols) |-> <<i - 1, cols[i]>>]
            IsOpen(pair) == DictGet(row, pair[2]) = OPEN
        IN available_slots = SelectSeq(enumerated, IsOpen)

\* The ledger records a cancel of (username, date, time_slot) is about.
MatchingRecords(appointments_file, username, date, time_slot) ==
    LET records == LedgerRecords(appointments_file)
    IN {i \in 1..Len(records) :
           /\ records[i][1] = username
           /\ records[i][3] = date
           /\ records[i][4] = time_slot}

\* s without its i-th element.
RemoveAt(s, i) == SubSeq(s, 1, i - 1) \o SubSeq(s, i + 1, Len(s))

\* C7: cancelling a (patient, date, slot) that has a matching ledger record
\* reports success and removes exactly one record, the other records staying
\* as they were and in their order.
C7_CancelRemovesExactlyOne ==
    [][\A date \in Dates, time_slot \in SlotNameSet :
          (/\ MatchingRecords(appointments, user, date, time_slot) # {}
           /\ CancelAppointment(date, time_slot))
          => /\ msg' = "Appointment cancelled successfully!"
             /\ \E i \in MatchingRecords(appointments, user, date, time_slot) :
                   LedgerRecords(appointments') = RemoveAt(LedgerRecords(appointments), i)
    ]_vars

\* C8: cancelling a (patient, date, slot) that matches no ledger record, or
\* with no appointments file, reports that nothing was found, changes neither
\* the ledger nor the schedule, and raises nothing.
C8_CancelOfNothingIsNoOp ==
    [][\A date \in Dates, time_slot \in SlotNameSet :
          (/\ MatchingRecords(appointments, user, date, time_slot) = {}
           /\ CancelAppointment(date, time_slot))
          => /\ pc' = "menu"
             /\ msg' \in {"No matching appointment found.", "No appointments found."}
             /\ appointments' = appointments
             /\ schedule' = schedule
    ]_vars

\* C9: every record a successful booking appends is afterwards read back by
\* the ledger's readers: listing the patient's appointments returns it and a
\* cancel with its (patient, date, slot) finds it -- also when the booking
\* created the appointments file.
C9_AppendedRecordsAreReadable ==
    [][BookingLogged =>
        \A s \in BookedSlotKeys :
            /\ ~ViewRaisesKeyError(appointments')
            /\ \E row \in Range(ListForPatient(appointments', user)) :
                  /\ IsRecord(row)
                  /\ WriteRow(AppointmentFields, row)
                       = <<user, mhwp_username, selected_date, s>>
            /\ MatchingRecords(appointments', user, selected_date, s) # {}
    ]_vars

\* C10: no error of book, cancel or view leaves handle_patient_menu: the
\* session is never ended by an exception.
C10_NoErrorPropagates == pc # "raised"

\* C11: loading the available schedule of an MHWP returns without an error,
\* and no row it returns offers a (date, slot) that the ledger records as an
\* appointment of that MHWP.
C11_LoadAvailableExcludesBooked ==
    [][\A mhwp \in MHWPs :
          LoadMhwpSchedule(mhwp)
          => /\ msg' # "KeyError"
             /\ \A r \in Range(LedgerRecords(appointments)) :
                   r[2] = mhwp =>
                      \A row \in Range(listed') :
                         ~(/\ DictGet(row, "Date") = r[3]
                           /\ HasKey(row, r[4])
                           /\ DictGet(row, r[4]) = OPEN)
    ]_vars

\* The BOOKED cells of the persisted schedule, as (mhwp, date, slot).
BookedCells(schedule_file) ==
    LET rows == DictReader(schedule_file.lines)
    IN UNION {{<<DictGet(rows[i], "mhwp_username"), DictGet(rows[i], "Date"), s>> :
                  s \in {k \in Range(TimeSlotColumns(rows[i])) :
                            DictGet(rows[i], k) = BOOKED}} :
              i \in 1..Len(rows)}

\* C12: a cancel, whether it removes a record or not, leaves the schedule
\* file (and the assignments file) as it was: every cell that was BOOKED is
\* still BOOKED.
C12_CancelLeavesScheduleAlone ==
    [][pc = "menu" =>
       \A date \in Dates, time_slot \in SlotNameSet :
          CancelAppointment(date, time_slot)
          => /\ schedule' = schedule
             /\ assignments' = assignments
             /\ BookedCells(schedule') = BookedCells(schedule)
    ]_vars

\* A cancel removed the last record while the schedule still holds a BOOKED cell.
C12_Witness ==
    /\ pc = "menu"
    /\ msg = "Appointment cancelled successfully!"
    /\ LedgerRecords(appointments) = <<>>
    /\ BookedCells(schedule) # {}

\* The slot names listed as open for a persisted schedule row.
OpenSlotNames(row) ==
    LET avail == extract_available_slots(<<row>>)
    IN {avail[i][2] : i \in 1..Len(avail)}

\* C13: round trip -- once a booked (date, slot) of the patient is cancelled,
\* listing the open slots of the MHWP's row of that date reports the slot as
\* open again.
C13_CancelledSlotIsOpenAgain ==
    [][\A date \in Dates, time_slot \in SlotNameSet :
          (/\ CancelAppointment(date, time_slot)
           /\ msg' = "Appointment cancelled successfully!")
          => \A i \in MatchingRecords(appointments, user, date, time_slot) :
                \A row \in Range(ScheduleRowsOf(schedule',
                                                LedgerRecords(appointments)[i][2], date)) :
                    time_slot \in OpenSlotNames(row)
    ]_vars

\* The (mhwp, date, slot) cells the booking in progress chose.
ChosenCells == {<<mhwp_username, selected_date, s>> : s \in BookedSlotKeys}

\* C14: in a booking the schedule is saved strictly before the ledger is
\* appended and nothing undoes the save.  No step before the save changes the
\* ledger, the save itself leaves the ledger alone, the ledger is appended
\* only once the chosen cells are BOOKED in the persisted schedule, and a
\* booking that fails between the two writes leaves the chosen cells BOOKED
\* with no ledger record for them.
C14_SaveBeforeAppendNoRollback ==
    [][/\ pc \in {"select", "mark"} => appointments' = appointments
       /\ pc = "append" =>
            /\ ChosenCells \subseteq BookedCells(schedule)
            /\ schedule' = schedule
       /\ (pc = "append" /\ msg' = "Error: cannot open appointments file") =>
            /\ appointments' = appointments
            /\ ChosenCells \subseteq BookedCells(schedule')
            /\ \A c \in ChosenCells :
                  \A r \in Range(LedgerRecords(appointments')) :
                     <<r[2], r[3], r[4]>> # c
    ]_vars

\* A booking failed between the two writes and left a BOOKED cell that no
\* ledger record accounts for.
C14_Witness ==
    /\ pc = "menu"
    /\ msg = "Error: cannot open appointments file"
    /\ <<"drsmith", "2024/03/01", "12:00">> \in BookedCells(schedule)
    /\ \A r \in Range(LedgerRecords(appointments)) :
          <<r[2], r[3], r[4]>> # <<"drsmith", "2024/03/01", "12:00">>

\* The MHWP the assignments file gives a patient: that of the first line after
\* the header, in file order, that names the patient; None without the file
\* or without such a line.
FirstAssigned(assignments_file, patient) ==
    LET at == {i \in 2..Len(assignments_file.lines) :
                  assignments_file.lines[i][1] = patient}
    IN IF ~assignments_file.exists \/ at = {} THEN None
       ELSE assignments_file.lines[CHOOSE i \in at : \A j \in at : i <= j][2]

\* The cases in which a booking has nothing to book: no schedule file, no row
\* of the MHWP, no row of the MHWP for the date, or no OPEN cell in that row.
NothingToBook(schedule_file, mhwp, date) ==
    \/ ~schedule_file.exists
    \/ \A d \in Dates : ScheduleRowsOf(schedule_file, mhwp, d) = <<>>
    \/ ScheduleRowsOf(schedule_file, mhwp, date) = <<>>
    \/ LET row == ScheduleRowsOf(schedule_file, mhwp, date)[1]
       IN \A k \in Range(TimeSlotColumns(row)) : DictGet(row, k) # OPEN

\* C15: a booking attempted when the schedule file is missing, the MHWP has
\* no row, the date has no row, or the row has no open slot is reported and
\* abandoned: the schedule and the ledger are unchanged and the session is
\* back at the menu.
C15_NothingToBookIsNoOp ==
    [][\A date \in Dates :
          (/\ BookAppointment(date)
           /\ FirstAssigned(assignments, user) # None
           /\ NothingToBook(schedule, FirstAssigned(assignments, user), date))
          => /\ pc' = "menu"
             /\ msg' \in {"Error: Schedule file not found.",
                          "No schedule found for MHW.",
                          "No schedule found for date. Please select a valid date.",
                          "No available slots for the selected date. Please try another date."}
             /\ schedule' = schedule
             /\ appointments' = appointments
    ]_vars

\* A booking was abandoned because the row of the date had no open slot.
C15_Witness ==
    /\ pc = "menu"
    /\ msg = "No available slots for the selected date. Please try another date."
    /\ \E date \in Dates :
          LET rows == ScheduleRowsOf(schedule, FirstAssigned(assignments, user), date)
          IN /\ rows # <<>>
             /\ \A k \in Range(TimeSlotColumns(rows[1])) : DictGet(rows[1], k) = BOOKED

\* C16: the lookup of a patient's MHWP gives the MHWP of the first assignment
\* line naming the patient and nothing when there is no such line or no
\* file; the booking that makes the lookup goes on with exactly that MHWP, or
\* reports that none is assigned, and the lookup changes no file.
C16_FirstAssignmentWins ==
    [][/\ \A p \in Patients :
             get_assigned_mhwp(p, assignments) = FirstAssigned(assignments, p)
       /\ pc = "menu" =>
          \A date \in Dates :
             BookAppointment(date)
             => /\ assignments' = assignments
                /\ schedule' = schedule
                /\ appointments' = appointments
                /\ (FirstAssigned(assignments, user) = None)
                      <=> (msg' = "No MHW assigned to you. Please contact support.")
                /\ pc' = "select" => mhwp_username' = FirstAssigned(assignments, user)
    ]_vars

\* A patient listed twice in the assignments file is booking with the MHWP of
\* the first of the two lines.
C16_Witness ==
    /\ pc = "select"
    /\ user = "alice"
    /\ mhwp_username = "drsmith"
    /\ Cardinality({i \in 2..Len(assignments.lines) : assignments.lines[i][1] = "alice"}) = 2

\* C17: no step of a booking for an MHWP changes the persisted rows of any
\* other MHWP: each (mhwp, date) row of another MHWP is there afterwards with
\* the same cells.
C17_BookingLeavesOtherMhwpsRows ==
    [][\A other \in MHWPs, date \in Dates :
          (pc \in {"select", "mark", "append"} /\ other # mhwp_username)
          => ScheduleRowsOf(schedule', other, date) = ScheduleRowsOf(schedule, other, date)
    ]_vars

\* The cells of the persisted schedule as (mhwp, date, slot, marker).
Cells(schedule_file) ==
    LET rows == DictReader(schedule_file.lines)
    IN UNION {{<<DictGet(rows[i], "mhwp_username"), DictGet(rows[i], "Date"), k,
                 DictGet(rows[i], k)>> : k \in Range(TimeSlotColumns(rows[i]))} :
              i \in 1..Len(rows)}

\* C18: no double booking.  The marker of a persisted cell changes only in
\* the save of a booking, only for a cell of the booking's MHWP and date that
\* was OPEN in the persisted schedule, and only to BOOKED; no step turns a
\* BOOKED cell into an OPEN one or adds a cell.  (A row that a save drops from
\* the file -- C17 -- has no cells afterwards; that is absence, not a change of
\* marker.)  Between operations no two ledger records of different patients
\* name the same (mhwp, date, slot).
C18_NoDoubleBooking ==
    [][/\ schedule' # schedule =>
            \A c \in Cells(schedule') :
               c \notin Cells(schedule)
               => /\ pc = "mark"
                  /\ c[1] = mhwp_username
                  /\ c[2] = selected_date
                  /\ c[4] = BOOKED
                  /\ <<c[1], c[2], c[3], OPEN>> \in Cells(schedule)
       /\ pc' \in {"menu", "ended"} =>
            \A r1, r2 \in Range(LedgerRecords(appointments')) :
               <<r1[2], r1[3], r1[4]>> = <<r2[2], r2[3], r2[4]>> => r1[1] = r2[1]
    ]_vars

\* Two patients of one MHWP hold records for different slots of one date.
C18_Witness ==
    /\ pc = "menu"
    /\ \E r1, r2 \in Range(LedgerRecords(appointments)) :
          /\ r1[1] # r2[1]
          /\ r1[2] = r2[2]
          /\ r1[3] = r2[3]
          /\ r1[4] # r2[4]
          /\ {<<r1[2], r1[3], r1[4]>>, <<r2[2], r2[3], r2[4]>>} \subseteq BookedCells(schedule)

====
